---- MODULE Spec2Model ----
(***************************************************************************)
(* The fetch-decode-execute loop of the CHIP-8 core in src/main.c:         *)
(* the CPU aggregate (registers, program counter, memory, call stack),     *)
(* the run() loop with one action per dispatch branch, and the opcode      *)
(* handlers ld .. xor_xy.                                                  *)
(***************************************************************************)
EXTENDS Integers, Sequences, FiniteSets, TLC

VARIABLES
    registers,           \* CPU.registers[16], uint8_t
    position_in_memory,  \* CPU.position_in_memory, the program counter
    memory,              \* CPU.memory[4096], uint8_t: the bytes the image loaded,
                         \* every address outside its domain holding 0
    stack,               \* CPU.stack[16], uint16_t
    stack_pointer,       \* CPU.stack_pointer, next free slot
    opcode,              \* run()'s local: the word fetched last (-1: none yet)
    status,              \* "RUNNING" | "HALTED" (run returned) | "FAULTED" (exit)
    output,              \* the lines run() and its handlers printed
    prev,                \* history: the CPU fields as they were at the last fetch
    prev2,               \* history: the same, one instruction earlier
    initial,             \* history: the CPU as the caller handed it to run()
    pending,             \* history: the fetch addresses of the CALLs executed and
                         \* not yet returned from, oldest first
    straight             \* history: the number of instructions executed so far,
                         \* or -1 once one of them was a JMP, CALL or RET

vars == <<registers, position_in_memory, memory, stack, stack_pointer,
          opcode, status, output, prev, prev2,
          initial, pending, straight>>

(***************************************************************************)
(* Sizes fixed by the CPU structure.                                       *)
(***************************************************************************)
NumRegisters == 16
MemorySize == 4096
StackSize == 16

(***************************************************************************)
(* Bounds of the exploration.                                              *)
(***************************************************************************)
\* Initial register values and immediates are drawn from 0..MaxLow and
\* 255-MaxLow..255.
MaxLow == 1
\* A fetch past the end of memory is followed for this many bytes beyond it.
MaxOverrun == 1
\* Depth of the nested call chains among the initial programs.
MaxNest == 3

Vals == (0..MaxLow) \cup ((255 - MaxLow)..255)
KKs == (0..MaxLow) \cup {255}
Regs == {0, 1, 15}
MaxPC == MemorySize + MaxOverrun

(***************************************************************************)
(* Bit operations of C on unsigned operands.                               *)
(***************************************************************************)
RECURSIVE BitAnd(_, _)
BitAnd(a, b) ==
    IF a = 0 \/ b = 0 THEN 0
    ELSE (IF a % 2 = 1 /\ b % 2 = 1 THEN 1 ELSE 0) + 2 * BitAnd(a \div 2, b \div 2)

RECURSIVE BitOr(_, _)
BitOr(a, b) ==
    IF a = 0 THEN b ELSE IF b = 0 THEN a
    ELSE (IF a % 2 = 1 \/ b % 2 = 1 THEN 1 ELSE 0) + 2 * BitOr(a \div 2, b \div 2)

RECURSIVE BitXor(_, _)
BitXor(a, b) ==
    IF a = 0 THEN b ELSE IF b = 0 THEN a
    ELSE (IF a % 2 # b % 2 THEN 1 ELSE 0) + 2 * BitXor(a \div 2, b \div 2)

Shr(a, n) == a \div (2 ^ n)

(***************************************************************************)
(* Decode: the field views of run() over the fetched word.                 *)
(***************************************************************************)
X(op) == Shr(BitAnd(op, \h0F00), 8)
Y(op) == Shr(BitAnd(op, \h00F0), 4)
KK(op) == BitAnd(op, \h00FF)
OpMinor(op) == BitAnd(op, \h000F)
Addr(op) == BitAnd(op, \h0FFF)
Class(op) == BitAnd(op, \hF000)

\* The branch of run()'s if / else-if cascade (and of the switch inside
\* class 0x8) that a word takes, the tests tried in the order of the code.
Dispatch(op) ==
    IF op = \h0000 THEN "HALT"
    ELSE IF op = \h00E0 THEN "CLS"
    ELSE IF op = \h00EE THEN "RET"
    ELSE IF Class(op) = \h1000 THEN "JMP"
    ELSE IF Class(op) = \h2000 THEN "CALL"
    ELSE IF Class(op) = \h3000 THEN "SE"
    ELSE IF Class(op) = \h4000 THEN "SNE"
    ELSE IF Class(op) = \h5000 THEN "SE_XY"
    ELSE IF Class(op) = \h6000 THEN "LD"
    ELSE IF Class(op) = \h7000 THEN "ADD"
    ELSE IF Class(op) = \h8000 THEN
        CASE OpMinor(op) = 0 -> "LD_XY"
          [] OpMinor(op) = 1 -> "OR_XY"
          [] OpMinor(op) = 2 -> "AND_XY"
          [] OpMinor(op) = 3 -> "XOR_XY"
          [] OpMinor(op) = 4 -> "ADD_XY"
          [] OTHER -> "UNHANDLED_ALU"
    ELSE "UNHANDLED"

(***************************************************************************)
(* Fetch.  The code indexes memory with the program counter unchecked; a   *)
(* read at an index past the array is undefined, so the byte it yields is  *)
(* any of OobBytes.                                                        *)
(***************************************************************************)
OobBytes == {\h00, \h12, \hEE}

\* cpu->memory[a] for a inside the array.
ReadMemory(a) == IF a \in DOMAIN memory THEN memory[a] ELSE 0

FetchByte(a) == IF a \in 0..(MemorySize - 1) THEN {ReadMemory(a)} ELSE OobBytes

FetchSet ==
    {b1 * 256 + b2 : b1 \in FetchByte(position_in_memory),
                     b2 \in FetchByte(position_in_memory + 1)}

\* Line 44: the counter is advanced before any handler runs.
advanced == position_in_memory + 2

Snapshot ==
    [position_in_memory |-> position_in_memory, stack_pointer |-> stack_pointer,
     registers |-> registers, stack |-> stack, opcode |-> opcode,
     pending |-> pending]

\* What Fetch adds to the history variables.
History(op) ==
    /\ prev' = Snapshot
    /\ prev2' = prev
    /\ initial' = initial
    /\ pending' =
          IF Dispatch(op) = "CALL" /\ stack_pointer < StackSize
          THEN Append(pending, position_in_memory)
          ELSE IF Dispatch(op) = "RET" /\ stack_pointer > 0 /\ pending # << >>
          THEN SubSeq(pending, 1, Len(pending) - 1)
          ELSE pending
    /\ straight' =
          IF straight < 0 \/ Dispatch(op) \in {"JMP", "CALL", "RET"}
          THEN -1
          ELSE straight + 1

\* Mutant of Fetch: the loop goes on after run() has returned or exited.
Fetch_after_exit(op) ==
    /\ position_in_memory <= MaxPC
    /\ op \in FetchSet
    /\ opcode' = op
    /\ History(op)

Fetch(op) ==
    /\ status = "RUNNING"
    /\ position_in_memory <= MaxPC
    /\ op \in FetchSet
    /\ opcode' = op
    /\ History(op)

\* A handler (or a branch) that returns to the loop.
Returns == UNCHANGED <<status, output>>

\* printf of a line, then exit(EXIT_FAILURE).
Exit(line) ==
    /\ status' = "FAULTED"
    /\ output' = Append(output, line)

\* A handler that does not assign the program counter leaves it advanced.
KeepPC == position_in_memory' = advanced

(***************************************************************************)
(* The handlers.                                                           *)
(***************************************************************************)
\* Mutant of ld: the value is also stored in memory at the register's index.
ld_to_memory(vx, kk) ==
    /\ registers' = [registers EXCEPT ![vx] = kk]
    /\ memory' = [a \in DOMAIN memory \cup {vx} |-> IF a = vx THEN kk ELSE memory[a]]
    /\ KeepPC
    /\ UNCHANGED <<stack, stack_pointer>>
    /\ Returns

ld(vx, kk) ==
    /\ registers' = [registers EXCEPT ![vx] = kk]
    /\ KeepPC
    /\ UNCHANGED <<memory, stack, stack_pointer>>
    /\ Returns

\* Mutant of add: updates the carry flag as the register form does.
add_with_carry(vx, kk) ==
    LET sum == registers[vx] + kk
        r1 == [registers EXCEPT ![vx] = sum % 256]
    IN  /\ registers' = [r1 EXCEPT ![\hF] = IF sum > \hFF THEN 1 ELSE 0]
        /\ KeepPC
        /\ UNCHANGED <<memory, stack, stack_pointer>>
        /\ Returns

add(vx, kk) ==
    /\ registers' = [registers EXCEPT ![vx] = (registers[vx] + kk) % 256]
    /\ KeepPC
    /\ UNCHANGED <<memory, stack, stack_pointer>>
    /\ Returns

\* Mutant of se: the test inverted.
se_inverted(vx, kk) ==
    /\ position_in_memory' = IF registers[vx] # kk THEN advanced + 2 ELSE advanced
    /\ UNCHANGED <<registers, memory, stack, stack_pointer>>
    /\ Returns

se(vx, kk) ==
    /\ position_in_memory' = IF registers[vx] = kk THEN advanced + 2 ELSE advanced
    /\ UNCHANGED <<registers, memory, stack, stack_pointer>>
    /\ Returns

\* Mutant of sne: a taken skip goes back to the instruction itself.
sne_rewinds(vx, kk) ==
    /\ position_in_memory' = IF registers[vx] # kk THEN advanced - 2 ELSE advanced
    /\ UNCHANGED <<registers, memory, stack, stack_pointer>>
    /\ Returns

sne(vx, kk) ==
    /\ position_in_memory' = IF registers[vx] # kk THEN advanced + 2 ELSE advanced
    /\ UNCHANGED <<registers, memory, stack, stack_pointer>>
    /\ Returns

\* Mutant of jmp: the counter advanced after the handler, not before.
jmp_then_advance(addr) ==
    /\ position_in_memory' = addr + 2
    /\ UNCHANGED <<registers, memory, stack, stack_pointer>>
    /\ Returns

\* Mutant of jmp: the body of call without its capacity test.
jmp_pushes(addr) ==
    /\ stack' = IF stack_pointer \in DOMAIN stack
                 THEN [stack EXCEPT ![stack_pointer] = advanced % 65536]
                 ELSE stack
    /\ stack_pointer' = stack_pointer + 1
    /\ position_in_memory' = addr
    /\ UNCHANGED <<registers, memory>>
    /\ Returns

jmp(addr) ==
    /\ position_in_memory' = addr
    /\ UNCHANGED <<registers, memory, stack, stack_pointer>>
    /\ Returns

\* Mutant of call: the depth is raised before the capacity check.
call_counts_then_checks(addr) ==
    IF stack_pointer >= StackSize
    THEN /\ Exit([text |-> "Stack overflow!"])
         /\ KeepPC
         /\ stack_pointer' = stack_pointer + 1
         /\ UNCHANGED <<registers, memory, stack>>
    ELSE /\ stack' = [stack EXCEPT ![stack_pointer] = advanced % 65536]
         /\ stack_pointer' = stack_pointer + 1
         /\ position_in_memory' = addr
         /\ UNCHANGED <<registers, memory>>
         /\ Returns

\* Mutant of call: pushes the counter of the CALL itself, not the advanced one.
call_push_unadvanced(addr) ==
    IF stack_pointer >= StackSize
    THEN /\ Exit([text |-> "Stack overflow!"])
         /\ KeepPC
         /\ UNCHANGED <<registers, memory, stack, stack_pointer>>
    ELSE /\ stack' = [stack EXCEPT ![stack_pointer] = position_in_memory % 65536]
         /\ stack_pointer' = stack_pointer + 1
         /\ position_in_memory' = addr
         /\ UNCHANGED <<registers, memory>>
         /\ Returns

\* Mutant of call: the capacity test off by one (> for >=).
call_off_by_one(addr) ==
    IF stack_pointer > StackSize
    THEN /\ Exit([text |-> "Stack overflow!"])
         /\ KeepPC
         /\ UNCHANGED <<registers, memory, stack, stack_pointer>>
    ELSE /\ stack' = IF stack_pointer \in DOMAIN stack
                     THEN [stack EXCEPT ![stack_pointer] = advanced % 65536]
                     ELSE stack
         /\ stack_pointer' = stack_pointer + 1
         /\ position_in_memory' = addr
         /\ UNCHANGED <<registers, memory>>
         /\ Returns

call(addr) ==
    IF stack_pointer >= StackSize
    THEN /\ Exit([text |-> "Stack overflow!"])
         /\ KeepPC
         /\ UNCHANGED <<registers, memory, stack, stack_pointer>>
    ELSE /\ stack' = [stack EXCEPT ![stack_pointer] = advanced % 65536]
         /\ stack_pointer' = stack_pointer + 1
         /\ position_in_memory' = addr
         /\ UNCHANGED <<registers, memory>>
         /\ Returns

\* Mutant of ret: an underflow is ignored, the loop goes on.
ret_ignore_underflow ==
    IF stack_pointer = 0
    THEN /\ KeepPC
         /\ UNCHANGED <<registers, memory, stack, stack_pointer>>
         /\ Returns
    ELSE /\ stack_pointer' = stack_pointer - 1
         /\ position_in_memory' = stack[stack_pointer - 1]
         /\ UNCHANGED <<registers, memory, stack>>
         /\ Returns

\* Mutant of ret: the oldest return address is taken, not the newest.
ret_reads_bottom ==
    IF stack_pointer = 0
    THEN /\ Exit([text |-> "Stack underflow!"])
         /\ KeepPC
         /\ UNCHANGED <<registers, memory, stack, stack_pointer>>
    ELSE /\ stack_pointer' = stack_pointer - 1
         /\ position_in_memory' = stack[0]
         /\ UNCHANGED <<registers, memory, stack>>
         /\ Returns

ret ==
    IF stack_pointer = 0
    THEN /\ Exit([text |-> "Stack underflow!"])
         /\ KeepPC
         /\ UNCHANGED <<registers, memory, stack, stack_pointer>>
    ELSE /\ stack_pointer' = stack_pointer - 1
         /\ position_in_memory' = stack[stack_pointer - 1]
         /\ UNCHANGED <<registers, memory, stack>>
         /\ Returns

\* Mutant of add_xy: the carry test off by one (>= for >).
add_xy_carry_ge(x, y) ==
    LET sum == registers[x] + registers[y]
        r1 == [registers EXCEPT ![x] = BitAnd(sum, \hFF)]
    IN  /\ registers' = [r1 EXCEPT ![\hF] = IF sum >= \hFF THEN 1 ELSE 0]
        /\ KeepPC
        /\ UNCHANGED <<memory, stack, stack_pointer>>
        /\ Returns

\* Mutant of add_xy: the sum stored without the & 0xFF.
add_xy_no_wrap(x, y) ==
    LET sum == registers[x] + registers[y]
        r1 == [registers EXCEPT ![x] = sum]
    IN  /\ registers' = [r1 EXCEPT ![\hF] = IF sum > \hFF THEN 1 ELSE 0]
        /\ KeepPC
        /\ UNCHANGED <<memory, stack, stack_pointer>>
        /\ Returns

add_xy(x, y) ==
    LET sum == registers[x] + registers[y]
        r1 == [registers EXCEPT ![x] = BitAnd(sum, \hFF)]
    IN  /\ registers' = [r1 EXCEPT ![\hF] = IF sum > \hFF THEN 1 ELSE 0]
        /\ KeepPC
        /\ UNCHANGED <<memory, stack, stack_pointer>>
        /\ Returns

and_xy(x, y) ==
    /\ registers' = [registers EXCEPT ![x] = BitAnd(registers[x], registers[y])]
    /\ KeepPC
    /\ UNCHANGED <<memory, stack, stack_pointer>>
    /\ Returns

\* Mutant of or_xy: the operator of xor_xy pasted in.
or_xy_as_xor(x, y) ==
    /\ registers' = [registers EXCEPT ![x] = BitXor(registers[x], registers[y])]
    /\ KeepPC
    /\ UNCHANGED <<memory, stack, stack_pointer>>
    /\ Returns

or_xy(x, y) ==
    /\ registers' = [registers EXCEPT ![x] = BitOr(registers[x], registers[y])]
    /\ KeepPC
    /\ UNCHANGED <<memory, stack, stack_pointer>>
    /\ Returns

xor_xy(x, y) ==
    /\ registers' = [registers EXCEPT ![x] = BitXor(registers[x], registers[y])]
    /\ KeepPC
    /\ UNCHANGED <<memory, stack, stack_pointer>>
    /\ Returns

\* printf("Unhandled opcode: 0x%04X\n", opcode); exit(EXIT_FAILURE);
Unhandled(op) ==
    /\ Exit([text |-> "Unhandled opcode", opcode |-> op])
    /\ KeepPC
    /\ UNCHANGED <<registers, memory, stack, stack_pointer>>

(***************************************************************************)
(* Initial states.  run() takes any CPU the caller has prepared: a program *)
(* image in memory, an entry point, register values, and a call stack of   *)
(* depth 0..16.  main() prepares one such CPU.                             *)
(***************************************************************************)
Hi(w) == Shr(w, 8)
Lo(w) == BitAnd(w, \hFF)

\* The image holding the big-endian words of `prog` (a set of <<address, word>>
\* with no two words overlapping), zero elsewhere (main: CPU cpu = {0}).
Image(prog) ==
    [a \in UNION {{e[1], e[1] + 1} : e \in prog} |->
        IF \E e \in prog : e[1] = a
        THEN Hi((CHOOSE e \in prog : e[1] = a)[2])
        ELSE Lo((CHOOSE e \in prog : e[1] + 1 = a)[2])]

Bases == {\h000, \h201, \hFFE}
Targets == {\h000, \h200, \hFFF}

TestWords ==
    {\h0000, \h00E0, \h00EE, \h0001, \h00EF, \h0100, \h0FFF}
    \cup {c + a : c \in {\h1000, \h2000}, a \in Targets}
    \cup {c + 256 * x + k : c \in {\h3000, \h4000, \h6000, \h7000}, x \in Regs, k \in KKs}
    \cup {\h5000 + 256 * x + 16 * y + n : x \in Regs, y \in Regs, n \in {0, 1, 15}}
    \cup {\h8000 + 256 * x + 16 * y + n :
               x \in Regs, y \in Regs, n \in (0..5) \cup {9, 15}}
    \cup {c * 4096 + v : c \in 9..15, v \in {\h000, \hFFF}}

ZeroRegisters == [i \in 0..(NumRegisters - 1) |-> 0]
\* Memory holding 0x00E0 at every even address: 2048 instructions, none of
\* them a jump, a call, a return or a halt.
Sled == [a \in {2 * i + 1 : i \in 0..((MemorySize \div 2) - 1)} |-> \hE0]
ZeroStack == [i \in 0..(StackSize - 1) |-> 0]
\* A call stack left by earlier calls: slot i returns into zeroed memory.
UsedStack == [i \in 0..(StackSize - 1) |-> \h300 + 2 * i]
AltRegisters(a, b) == [i \in 0..(NumRegisters - 1) |-> IF i % 2 = 0 THEN a ELSE b]
MainRegisters == [ZeroRegisters EXCEPT ![0] = 5, ![1] = 10]

\* n nested subroutines: level k calls level k + 1, the innermost returns at once.
Chain(n) ==
    {<<4 * k, \h2000 + 4 * (k + 1)>> : k \in 0..(n - 1)}
    \cup {<<4 * k + 2, \h00EE>> : k \in 1..(n - 1)}
    \cup {<<4 * n, \h00EE>>}

\* The program main() loads.
MainProgram ==
    {<<\h0000, \h2100>>, <<\h0002, \h2100>>,
     <<\h0100, \h8014>>, <<\h0102, \h8014>>, <<\h0104, \h00EE>>}

Start(mem, pc, regs, stk, sp) ==
    /\ registers = regs
    /\ position_in_memory = pc
    /\ memory = mem
    /\ stack = stk
    /\ stack_pointer = sp
    /\ opcode = -1
    /\ status = "RUNNING"
    /\ output = << >>
    /\ prev = [position_in_memory |-> pc, stack_pointer |-> sp,
               registers |-> regs, stack |-> stk, opcode |-> -1,
               pending |-> << >>]
    /\ prev2 = prev
    /\ initial = [position_in_memory |-> pc, stack_pointer |-> sp,
                  registers |-> regs, stack |-> stk, memory |-> mem]
    /\ pending = << >>
    /\ straight = 0

\* The CPU main() prepares, over the values of V0 and V1.
MainInit ==
    \E a \in Vals \cup {5}, b \in Vals \cup {10, 16} :
        Start(Image(MainProgram), 0, [ZeroRegisters EXCEPT ![0] = a, ![1] = b],
              ZeroStack, 0)

\* One instruction at main()'s entry point, with main()'s registers.
EntryInit ==
    \E w \in TestWords : Start(Image({<<0, w>>}), 0, MainRegisters, ZeroStack, 0)

Init ==
    \* one instruction at a base address, over the register values
    \/ \E w \in TestWords, p \in Bases, a \in Vals, b \in Vals :
          Start(Image({<<p, w>>}), p, AltRegisters(a, b), ZeroStack, 0)
    \* a call, a return or a load met at every stack depth
    \/ \E w \in {\h00EE, \h2200, \h6001}, p \in Bases, d \in 0..StackSize :
          Start(Image({<<p, w>>}), p, MainRegisters, UsedStack, d)
    \* a call whose target is a return
    \/ \E p \in Bases, t \in {\h200, \h301, \hFFE},
          d \in {0, 1, StackSize - 1, StackSize} :
          Start(Image({<<p, \h2000 + t>>, <<t, \h00EE>>}), p,
                MainRegisters, UsedStack, d)
    \* nested calls
    \/ \E n \in (1..MaxNest) \cup {StackSize} :
          Start(Image(Chain(n)), 0, MainRegisters, ZeroStack, 0)
    \/ MainInit
    \/ EntryInit
    \* straight-line code filling the memory
    \/ Start(Sled, 0, MainRegisters, ZeroStack, 0)
    \* OR, AND, XOR of V0 = 0xA and V1 = 0x6
    \/ \E w \in {\h8011, \h8012, \h8013} :
          Start(Image({<<0, w>>}), 0, [ZeroRegisters EXCEPT ![0] = \hA, ![1] = \h6],
                ZeroStack, 0)

(***************************************************************************)
(* run(): one iteration of the loop, one action per dispatch branch.       *)
(***************************************************************************)
RunHalt ==
    \E op \in FetchSet :
        /\ Fetch(op) /\ Dispatch(op) = "HALT"
        /\ status' = "HALTED"
        /\ KeepPC
        /\ UNCHANGED <<registers, memory, stack, stack_pointer, output>>

RunClearScreen ==
    \E op \in FetchSet :
        /\ Fetch(op) /\ Dispatch(op) = "CLS"
        /\ KeepPC
        /\ UNCHANGED <<registers, memory, stack, stack_pointer>>
        /\ Returns

RunRet == \E op \in FetchSet : Fetch(op) /\ Dispatch(op) = "RET" /\ ret

RunJmp == \E op \in FetchSet : Fetch(op) /\ Dispatch(op) = "JMP" /\ jmp(Addr(op))

RunCall == \E op \in FetchSet : Fetch(op) /\ Dispatch(op) = "CALL" /\ call(Addr(op))

RunSe == \E op \in FetchSet : Fetch(op) /\ Dispatch(op) = "SE" /\ se(X(op), KK(op))

RunSne == \E op \in FetchSet : Fetch(op) /\ Dispatch(op) = "SNE" /\ sne(X(op), KK(op))

RunSeXY ==
    \E op \in FetchSet : Fetch(op) /\ Dispatch(op) = "SE_XY" /\ se(X(op), registers[Y(op)])

RunLd == \E op \in FetchSet : Fetch(op) /\ Dispatch(op) = "LD" /\ ld(X(op), KK(op))

RunAdd == \E op \in FetchSet : Fetch(op) /\ Dispatch(op) = "ADD" /\ add(X(op), KK(op))

RunLdXY ==
    \E op \in FetchSet : Fetch(op) /\ Dispatch(op) = "LD_XY" /\ ld(X(op), registers[Y(op)])

RunOrXY == \E op \in FetchSet : Fetch(op) /\ Dispatch(op) = "OR_XY" /\ or_xy(X(op), Y(op))

RunAndXY == \E op \in FetchSet : Fetch(op) /\ Dispatch(op) = "AND_XY" /\ and_xy(X(op), Y(op))

RunXorXY == \E op \in FetchSet : Fetch(op) /\ Dispatch(op) = "XOR_XY" /\ xor_xy(X(op), Y(op))

RunAddXY == \E op \in FetchSet : Fetch(op) /\ Dispatch(op) = "ADD_XY" /\ add_xy(X(op), Y(op))

\* Mutant of the switch's default: the word is printed and the loop goes on.
RunUnhandledAlu_printed_and_ignored ==
    \E op \in FetchSet :
        /\ Fetch(op) /\ Dispatch(op) = "UNHANDLED_ALU"
        /\ output' = Append(output, [text |-> "Unhandled opcode", opcode |-> op])
        /\ status' = status
        /\ KeepPC
        /\ UNCHANGED <<registers, memory, stack, stack_pointer>>

RunUnhandledAlu ==
    \E op \in FetchSet : Fetch(op) /\ Dispatch(op) = "UNHANDLED_ALU" /\ Unhandled(op)

RunUnhandled ==
    \E op \in FetchSet : Fetch(op) /\ Dispatch(op) = "UNHANDLED" /\ Unhandled(op)

Next ==
    \/ RunHalt
    \/ RunClearScreen
    \/ RunRet
    \/ RunJmp
    \/ RunCall
    \/ RunSe
    \/ RunSne
    \/ RunSeXY
    \/ RunLd
    \/ RunAdd
    \/ RunLdXY
    \/ RunOrXY
    \/ RunAndXY
    \/ RunXorXY
    \/ RunAddXY
    \/ RunUnhandledAlu
    \/ RunUnhandled

Spec == Init /\ [][Next]_vars

\* run() is a while (1) loop with no suspension point: while an iteration is
\* possible, one is taken.
MainSpec == (MainInit \/ EntryInit) /\ [][Next]_vars /\ WF_vars(Next)

(***************************************************************************)
(* Vocabulary of the properties.  After an instruction has been executed,  *)
(* opcode is the word fetched, prev the CPU as it was at the fetch, and    *)
(* prev.position_in_memory the address the word was fetched at.            *)
(***************************************************************************)
Executed == opcode # -1
Did(branch) == Executed /\ Dispatch(opcode) = branch
FetchedAt == prev.position_in_memory
Vx0 == prev.registers[X(opcode)]
Vy0 == prev.registers[Y(opcode)]
LastLine == output[Len(output)]
Faulted(line) == status = "FAULTED" /\ output # << >> /\ LastLine = line
StackUntouched == stack = prev.stack /\ stack_pointer = prev.stack_pointer

\* The patterns of the supported-instruction table.
InTable(op) ==
    \/ op \in {\h0000, \h00EE}
    \/ Class(op) \in {\h1000, \h2000, \h3000, \h4000, \h6000, \h7000}
    \/ Class(op) = \h5000 /\ OpMinor(op) = 0
    \/ Class(op) = \h8000 /\ OpMinor(op) \in 0..4

(***************************************************************************)
(* C1.  ADD Vx,Vy (0x8XY4).                                                *)
(***************************************************************************)
\* C1 as stated: after ADD Vx,Vy, for every X and Y (X = 0xF included),
\* Vx = (a + b) mod 256 and register 0xF = 1 if a + b > 255, else 0.
C1_AddXY_Original ==
    Did("ADD_XY") =>
        /\ registers[X(opcode)] = (Vx0 + Vy0) % 256
        /\ registers[\hF] = IF Vx0 + Vy0 > 255 THEN 1 ELSE 0

\* C1 amended: after ADD Vx,Vy register 0xF = 1 if a + b > 255, else 0, for
\* every X and Y; and Vx = (a + b) mod 256 for every X other than 0xF (with
\* X = 0xF the carry overwrites the sum).
C1_AddXY ==
    Did("ADD_XY") =>
        /\ registers[\hF] = IF Vx0 + Vy0 > 255 THEN 1 ELSE 0
        /\ X(opcode) # \hF => registers[X(opcode)] = (Vx0 + Vy0) % 256

C1_Witness ==
    /\ Did("ADD_XY")
    /\ X(opcode) = \hF
    /\ Vx0 + Vy0 > 255
    /\ (Vx0 + Vy0) % 256 # 1
    /\ registers[\hF] = 1

(***************************************************************************)
(* C2.  ADD Vx,KK (0x7XKK).                                                *)
(***************************************************************************)
\* C2 as stated: after ADD Vx,KK, for every X, Vx = (a + k) mod 256 and
\* register 0xF holds the value it held before the instruction.
C2_AddKK_Original ==
    Did("ADD") =>
        /\ registers[X(opcode)] = (Vx0 + KK(opcode)) % 256
        /\ registers[\hF] = prev.registers[\hF]

\* C2 amended: after ADD Vx,KK, Vx = (a + k) mod 256 for every X, and
\* register 0xF holds the value it held before whenever X is not 0xF.
C2_AddKK ==
    Did("ADD") =>
        /\ registers[X(opcode)] = (Vx0 + KK(opcode)) % 256
        /\ X(opcode) # \hF => registers[\hF] = prev.registers[\hF]

C2_Witness ==
    /\ Did("ADD")
    /\ Vx0 + KK(opcode) > 255
    /\ X(opcode) # \hF
    /\ registers[X(opcode)] = Vx0 + KK(opcode) - 256
    /\ registers[\hF] = 0

(***************************************************************************)
(* C3.  CALL then RET.                                                     *)
(***************************************************************************)
\* C3: when a RET is executed right after a successful CALL NNN fetched at p
\* (the RET being the instruction at NNN), the program counter is p + 2 and
\* the stack depth is the one before the CALL.
C3_CallRet ==
    (/\ Did("RET")
     /\ prev.opcode # -1
     /\ Dispatch(prev.opcode) = "CALL"
     /\ FetchedAt = Addr(prev.opcode))
    => /\ status = "RUNNING"
       /\ position_in_memory = prev2.position_in_memory + 2
       /\ stack_pointer = prev2.stack_pointer

C3_Witness ==
    /\ Did("RET")
    /\ prev.opcode # -1
    /\ Dispatch(prev.opcode) = "CALL"
    /\ FetchedAt = Addr(prev.opcode)
    /\ prev2.position_in_memory = \h201
    /\ position_in_memory = \h203
    /\ stack_pointer = StackSize - 1

(***************************************************************************)
(* C4.  Call-stack capacity.                                               *)
(***************************************************************************)
\* C4: a CALL executed at depth d < 16 succeeds (depth d + 1, return address
\* pushed, counter at NNN), so 16 CALLs from an empty stack reach depth 16;
\* a CALL executed at depth 16 faults with "Stack overflow!" and neither
\* pushes nor jumps.
C4_CallCapacity ==
    Did("CALL") =>
        IF prev.stack_pointer < StackSize
        THEN /\ status = "RUNNING"
             /\ stack_pointer = prev.stack_pointer + 1
             /\ stack = [prev.stack EXCEPT ![prev.stack_pointer] = FetchedAt + 2]
             /\ position_in_memory = Addr(opcode)
        ELSE /\ Faulted([text |-> "Stack overflow!"])
             /\ StackUntouched
             /\ position_in_memory = FetchedAt + 2

\* Sixteen recursive calls from the empty stack (every slot holds the return
\* address 2 of CALL 0 at address 0), and the seventeenth has faulted.
C4_Witness ==
    /\ Did("CALL")
    /\ Faulted([text |-> "Stack overflow!"])
    /\ stack_pointer = StackSize
    /\ \A i \in 0..(StackSize - 1) : stack[i] = 2

(***************************************************************************)
(* C5.  RET on the empty stack.                                            *)
(***************************************************************************)
\* C5: a RET executed at depth 0 faults with "Stack underflow!"; the stack
\* and its depth are untouched and the counter is the advanced one, not a
\* value taken from a stack slot.
C5_RetUnderflow ==
    (Did("RET") /\ prev.stack_pointer = 0) =>
        /\ Faulted([text |-> "Stack underflow!"])
        /\ StackUntouched
        /\ position_in_memory = FetchedAt + 2

C5_Witness ==
    /\ Did("RET")
    /\ prev.stack_pointer = 0
    /\ status = "FAULTED"
    /\ FetchedAt = \h201

(***************************************************************************)
(* C6.  SE Vx,KK and SNE Vx,KK.                                            *)
(***************************************************************************)
\* C6: after SE Vx,KK fetched at p the counter is p + 4 if Vx = KK and p + 2
\* otherwise; after SNE Vx,KK it is p + 4 if Vx # KK and p + 2 otherwise;
\* neither changes a register or the stack.
C6_Skip ==
    /\ Did("SE") =>
          /\ position_in_memory = FetchedAt + (IF Vx0 = KK(opcode) THEN 4 ELSE 2)
          /\ registers = prev.registers
          /\ StackUntouched
          /\ status = "RUNNING"
    /\ Did("SNE") =>
          /\ position_in_memory = FetchedAt + (IF Vx0 # KK(opcode) THEN 4 ELSE 2)
          /\ registers = prev.registers
          /\ StackUntouched
          /\ status = "RUNNING"

C6_Witness ==
    /\ Did("SE")
    /\ Vx0 = KK(opcode)
    /\ FetchedAt = \h201
    /\ position_in_memory = \h205

(***************************************************************************)
(* C7.  Words outside the instruction table.                               *)
(***************************************************************************)
\* C7: every word that matches no pattern of the supported-instruction table
\* faults, and the fault reports that word.
C7_UnknownFaults ==
    (Executed /\ ~InTable(opcode)) =>
        Faulted([text |-> "Unhandled opcode", opcode |-> opcode])

(***************************************************************************)
(* C8.  Unassigned ALU minor nibbles.                                      *)
(***************************************************************************)
\* C8: a class-0x8 word whose minor nibble is not in 0..4 faults, the fault
\* reports that word, and no register is modified.
C8_AluUnknown ==
    (Executed /\ Class(opcode) = \h8000 /\ OpMinor(opcode) \notin 0..4) =>
        /\ Faulted([text |-> "Unhandled opcode", opcode |-> opcode])
        /\ registers = prev.registers

C8_Witness ==
    /\ Executed
    /\ opcode = \h8019
    /\ output = << [text |-> "Unhandled opcode", opcode |-> \h8019] >>
    /\ status = "FAULTED"

(***************************************************************************)
(* C9.  Fetch addresses.                                                   *)
(***************************************************************************)
\* C9: both bytes of every instruction fetched were read at addresses
\* within 0..4095.
C9_FetchInBounds ==
    Executed => (FetchedAt >= 0 /\ FetchedAt + 1 <= MemorySize - 1)

(***************************************************************************)
(* C10.  What a fault exposes.                                             *)
(***************************************************************************)
\* C10: whenever the run is FAULTED, the fault output holds the opcode that
\* was fetched and the program counter it was fetched at.
C10_FaultReport ==
    status = "FAULTED" =>
        /\ output # << >>
        /\ "opcode" \in DOMAIN LastLine
        /\ LastLine.opcode = opcode
        /\ "pc" \in DOMAIN LastLine
        /\ LastLine.pc = FetchedAt

(***************************************************************************)
(* C11.  The program of main().                                            *)
(***************************************************************************)
IsMainRun ==
    /\ initial.memory = Image(MainProgram)
    /\ initial.position_in_memory = 0
    /\ initial.stack_pointer = 0

MainHalted ==
    /\ status = "HALTED"
    /\ registers[0] = (initial.registers[0] + 4 * initial.registers[1]) % 256
    /\ stack_pointer = 0

Bit(v, i) == (v \div (2 ^ i)) % 2

\* r is the byte whose every bit is Op of the bits of a and b.
Bitwise(r, a, b, Op(_, _)) ==
    r \in 0..255 /\ \A i \in 0..7 : Bit(r, i) = Op(Bit(a, i), Bit(b, i))

OrBit(p, q) == IF p = 1 \/ q = 1 THEN 1 ELSE 0
AndBit(p, q) == IF p = 1 /\ q = 1 THEN 1 ELSE 0
XorBit(p, q) == IF p # q THEN 1 ELSE 0

OthersKept ==
    \A r \in 0..(NumRegisters - 1) :
        r # X(opcode) => registers[r] = prev.registers[r]

\* C12: for X in 0..14 and any Y, OR / AND / XOR Vx,Vy leave in Vx the
\* bitwise OR / AND / XOR of the old Vx and Vy and leave register 0xF and
\* every other register as they were.
C12_Bitwise ==
    /\ (Did("OR_XY") /\ X(opcode) # \hF) =>
          Bitwise(registers[X(opcode)], Vx0, Vy0, OrBit) /\ OthersKept
    /\ (Did("AND_XY") /\ X(opcode) # \hF) =>
          Bitwise(registers[X(opcode)], Vx0, Vy0, AndBit) /\ OthersKept
    /\ (Did("XOR_XY") /\ X(opcode) # \hF) =>
          Bitwise(registers[X(opcode)], Vx0, Vy0, XorBit) /\ OthersKept

C12_Witness ==
    /\ Did("OR_XY")
    /\ X(opcode) = 0 /\ Y(opcode) = 1
    /\ Vx0 = \hA /\ Vy0 = \h6
    /\ registers[0] = \hE
    /\ registers[\hF] = prev.registers[\hF]

(***************************************************************************)
(* C13.  Bounds of the call stack.                                         *)
(***************************************************************************)
\* C13: in every state of a run started at depth 0..16 the depth is within
\* 0..16, the slot a successful CALL wrote and the slot a successful RET
\* read have an index within 0..15, and the stack keeps its 16 slots.
C13_StackBounds ==
    /\ stack_pointer \in 0..StackSize
    /\ DOMAIN stack = 0..(StackSize - 1)
    /\ (Did("CALL") /\ status = "RUNNING") =>
          prev.stack_pointer \in 0..(StackSize - 1)
    /\ (Did("RET") /\ status = "RUNNING") =>
          (prev.stack_pointer - 1) \in 0..(StackSize - 1)

C13_Witness ==
    /\ initial.stack_pointer = 0
    /\ Did("CALL")
    /\ status = "RUNNING"
    /\ prev.stack_pointer = StackSize - 1
    /\ stack_pointer = StackSize

(***************************************************************************)
(* C14.  Who changes the call stack.                                       *)
(***************************************************************************)
\* C14: a successful CALL raises the depth by 1 and writes the new top slot
\* only; a successful RET lowers the depth by 1; every other instruction,
\* the faulting ones included, leaves the depth and every entry as they were.
C14_StackFrame ==
    Executed =>
        IF Dispatch(opcode) = "CALL" /\ status = "RUNNING"
        THEN /\ stack_pointer = prev.stack_pointer + 1
             /\ \A i \in 0..(StackSize - 1) :
                   i # prev.stack_pointer => stack[i] = prev.stack[i]
        ELSE IF Dispatch(opcode) = "RET" /\ status = "RUNNING"
        THEN stack_pointer = prev.stack_pointer - 1
        ELSE StackUntouched

C14_Witness ==
    /\ Did("LD")
    /\ prev.stack_pointer = 5
    /\ stack_pointer = 5
    /\ stack = UsedStack

(***************************************************************************)
(* C15.  HALTED and FAULTED are final.                                     *)
(***************************************************************************)
NothingMoves ==
    /\ status' = status
    /\ opcode' = opcode
    /\ registers' = registers
    /\ memory' = memory
    /\ stack' = stack
    /\ stack_pointer' = stack_pointer
    /\ position_in_memory' = position_in_memory

\* C15: from a state in which the run is HALTED or FAULTED no step fetches
\* an instruction or changes the status, a register, memory, the stack or
\* the program counter.
C15_Absorbing == [][(status \in {"HALTED", "FAULTED"}) => NothingMoves]_vars

C15_Witness ==
    /\ IsMainRun
    /\ status = "HALTED"
    /\ position_in_memory = 6

(***************************************************************************)
(* C16.  The counter is advanced before the handler runs.                  *)
(***************************************************************************)
\* C16: for an instruction fetched at p, JMP NNN leaves the counter at NNN,
\* a successful CALL NNN has pushed p + 2 and leaves the counter at NNN, and
\* LD, ADD, OR, AND, XOR (immediate and register forms) and the 0x00E0
\* placeholder leave it at p + 2.
C16_AdvanceFirst ==
    /\ Did("JMP") => position_in_memory = Addr(opcode)
    /\ (Did("CALL") /\ status = "RUNNING") =>
          /\ stack[prev.stack_pointer] = FetchedAt + 2
          /\ position_in_memory = Addr(opcode)
    /\ (Executed /\ Dispatch(opcode) \in
            {"LD", "ADD", "LD_XY", "OR_XY", "AND_XY", "XOR_XY", "ADD_XY", "CLS"}) =>
          position_in_memory = FetchedAt + 2

C16_Witness ==
    /\ Did("JMP")
    /\ FetchedAt = \h201
    /\ Addr(opcode) = \hFFF
    /\ position_in_memory = \hFFF

(***************************************************************************)
(* C17.  The call stack is last-in first-out.                              *)
(***************************************************************************)
Last(q) == q[Len(q)]
Front(q) == SubSeq(q, 1, Len(q) - 1)

\* C17: the return addresses of the CALLs not yet returned from lie on top
\* of the stack in the order of the calls, and a successful RET leaves the
\* counter at (address + 2) of the most recent of them, takes it off and
\* lowers the depth by 1; so n nested CALLs followed by n RETs return in the
\* reverse order of the calls and end at the depth they started from.
C17_Lifo ==
    /\ stack_pointer >= Len(pending)
    /\ \A i \in 1..Len(pending) :
          stack[stack_pointer - Len(pending) + i - 1] = pending[i] + 2
    /\ (Did("RET") /\ status = "RUNNING" /\ prev.pending # << >>) =>
          /\ position_in_memory = Last(prev.pending) + 2
          /\ pending = Front(prev.pending)
          /\ stack_pointer = prev.stack_pointer - 1

\* Sixteen nested calls and sixteen returns: the last two returns went to
\* the second call (at 4) and then to the first (at 0), back at depth 0.
C17_Witness ==
    /\ initial.memory = Image(Chain(StackSize))
    /\ Did("RET")
    /\ prev2.pending = <<0, 4>>
    /\ prev.pending = <<0>>
    /\ prev.position_in_memory = 6
    /\ pending = << >>
    /\ position_in_memory = 2
    /\ stack_pointer = initial.stack_pointer

(***************************************************************************)
(* C18.  No instruction writes memory.                                     *)
(***************************************************************************)
\* C18: in every reachable state every memory byte equals its value at the
\* start of the run.
C18_MemoryFrozen == memory = initial.memory

\* A load has just changed a register; the instruction it was fetched from
\* is still in memory.
C18_Witness ==
    /\ Did("LD")
    /\ registers # prev.registers
    /\ registers[X(opcode)] = KK(opcode)
    /\ ReadMemory(FetchedAt) = Hi(opcode)
    /\ ReadMemory(FetchedAt + 1) = Lo(opcode)
    /\ memory = initial.memory

(***************************************************************************)
(* C19.  Straight-line code cannot loop.                                   *)
(***************************************************************************)
Taken ==
    \/ Dispatch(opcode) = "SE" /\ Vx0 = KK(opcode)
    \/ Dispatch(opcode) = "SNE" /\ Vx0 # KK(opcode)
    \/ Dispatch(opcode) = "SE_XY" /\ Vx0 = Vy0

\* C19: every executed instruction other than JMP, CALL and RET leaves the
\* counter 2 above its fetch address, or 4 above on a taken skip; so while
\* no JMP, CALL or RET has been executed the counter is at least twice the
\* number of instructions executed, and at most 2048 instructions are
\* fetched from addresses up to 0xFFE.
C19_NoLoop ==
    /\ (Executed /\ Dispatch(opcode) \notin {"JMP", "CALL", "RET"}) =>
          position_in_memory = FetchedAt + (IF Taken THEN 4 ELSE 2)
    /\ straight >= 0 =>
          position_in_memory >= initial.position_in_memory + 2 * straight
    /\ (straight > 0 /\ FetchedAt <= \hFFE) => straight <= MemorySize \div 2

\* 2048 instructions have run in a straight line; the next fetch is at 4096.
C19_Witness ==
    /\ straight = MemorySize \div 2
    /\ status = "RUNNING"
    /\ FetchedAt = \hFFE
    /\ position_in_memory = MemorySize

(***************************************************************************)
(* C20.  A faulting instruction has no partial effect.                     *)
(***************************************************************************)
\* C20: when the instruction fetched at p faults, the registers, the stack
\* entries and the stack depth equal their values before the fetch, and the
\* counter is p + 2.
C20_FaultFrame ==
    status = "FAULTED" =>
        /\ registers = prev.registers
        /\ StackUntouched
        /\ position_in_memory = FetchedAt + 2

\* A call met at depth 16 on a stack left by earlier calls.
C20_Witness ==
    /\ status = "FAULTED"
    /\ Did("CALL")
    /\ prev.stack_pointer = StackSize
    /\ stack = UsedStack
    /\ registers = MainRegisters
    /\ position_in_memory = \h203

====
